---- MODULE Spec2Model ----
(***************************************************************************)
(* The ArtHub extension of ComfyUI: one module-level mailbox,              *)
(* pending_workflow = {"data", "loaded"}, and three aiohttp handlers       *)
(* (load_workflow, get_pending_workflow, status) that run as coroutines    *)
(* on one event loop.  A coroutine is only suspended at an await; the      *)
(* only await of the module is `await request.json()` in load_workflow.    *)
(***************************************************************************)
EXTENDS Integers, Sequences, FiniteSets, TLC

\* Number of requests the server receives over one run.
MaxReq == 4

----------------------------------------------------------------------------
(* Python values, as json.loads produces them.  A value is its type and a  *)
(* size n: the length of a container or string, the number itself for an   *)
(* int, 0/1 for a bool, 0 for None.                                        *)

None == [type |-> "NoneType", n |-> 0]

PyFalse == [type |-> "bool", n |-> 0]

PyZero == [type |-> "int", n |-> 0]

PyStr(len) == [type |-> "str", n |-> len]

PyList(len) == [type |-> "list", n |-> len]

PyDict(len) == [type |-> "dict", n |-> len]

\* bool(x): None, False, 0 and every empty container or string are falsy.
Truthy(x) == x.n # 0

\* Request bodies a client posts to /arthub/load_workflow.
WorkflowA == "{\"1\": {\"class_type\": \"KSampler\"}}"

WorkflowB == "{\"1\": {\"class_type\": \"KSampler\"}, \"2\": {\"class_type\": \"SaveImage\"}}"

Malformed == "{"

FalsyBodies == {"{}", "[]", "0", "false", "\"\"", "null"}

Bodies == FalsyBodies \cup {WorkflowA, WorkflowB, Malformed}

\* request.json(): json.loads of the body text; raises on text that is not JSON.
json_loads(text) ==
    CASE text = "{}"      -> [ok |-> TRUE, value |-> PyDict(0), err |-> ""]
      [] text = "[]"      -> [ok |-> TRUE, value |-> PyList(0), err |-> ""]
      [] text = "0"       -> [ok |-> TRUE, value |-> PyZero, err |-> ""]
      [] text = "false"   -> [ok |-> TRUE, value |-> PyFalse, err |-> ""]
      [] text = "\"\""    -> [ok |-> TRUE, value |-> PyStr(0), err |-> ""]
      [] text = "null"    -> [ok |-> TRUE, value |-> None, err |-> ""]
      [] text = WorkflowA -> [ok |-> TRUE, value |-> PyDict(1), err |-> ""]
      [] text = WorkflowB -> [ok |-> TRUE, value |-> PyDict(2), err |-> ""]
      [] OTHER            -> [ok |-> FALSE, value |-> None,
                              err |-> "Expecting property name enclosed in double quotes: line 1 column 2 (char 1)"]

\* web.json_response serialises its argument with json.dumps.
json_dumps(x) ==
    CASE x = PyDict(0) -> "{}"
      [] x = PyList(0) -> "[]"
      [] x = PyZero    -> "0"
      [] x = PyFalse   -> "false"
      [] x = PyStr(0)  -> "\"\""
      [] x = PyDict(1) -> WorkflowA
      [] x = PyDict(2) -> WorkflowB
      [] OTHER         -> "null"

----------------------------------------------------------------------------
VARIABLES
    pending_workflow,   \* the module-level dict {"data", "loaded"}
    inflight,           \* requests routed to a handler that has not answered yet
    log,                \* the handler runs completed so far, in order
    received,           \* how many requests the router has taken so far
    overlapped          \* every request so far arrived before any handler finished

vars == <<pending_workflow, inflight, log, received, overlapped>>

\* The three routes.
Requests ==
    [op : {"load_workflow"}, body : Bodies]
        \cup {[op |-> "get_pending_workflow", body |-> ""], [op |-> "status", body |-> ""]}

PollRequest == [op |-> "get_pending_workflow", body |-> ""]

StatusRequest == [op |-> "status", body |-> ""]

SubmitRequest(body) == [op |-> "load_workflow", body |-> body]


Init ==
    /\ pending_workflow = [data |-> None, loaded |-> FALSE]
    /\ inflight = [r \in Requests |-> 0]
    /\ log = <<>>
    /\ received = 0
    /\ overlapped = TRUE

\* Completed handler run: what it was asked, what it answered and the
\* mailbox before and after it.
Entry(r, resp, pw, stored) ==
    [op |-> r.op, body |-> r.body, resp |-> resp,
     pre |-> pending_workflow, post |-> pw, stored |-> stored]

Finish(r, resp, pw, stored) ==
    /\ inflight' = [inflight EXCEPT ![r] = @ - 1]
    /\ log' = Append(log, Entry(r, resp, pw, stored))
    /\ pending_workflow' = pw
    /\ UNCHANGED <<received, overlapped>>

\* The router starts the handler of a request.  load_workflow runs up to
\* its await of the body; the other two handlers have not run yet.
Arrive(r) ==
    /\ received < MaxReq
    /\ received' = received + 1
    /\ overlapped' = (overlapped /\ Len(log) = 0)
    /\ inflight' = [inflight EXCEPT ![r] = @ + 1]
    /\ UNCHANGED <<pending_workflow, log>>

----------------------------------------------------------------------------
(* load_workflow *)

\* Mutant of StoreWorkflow: an undelivered payload is not overwritten.
StoreWorkflow_KeepsPending(pw, data) ==
    IF Truthy(pw.data) /\ ~pw.loaded THEN pw ELSE [data |-> data, loaded |-> FALSE]

\* Mutant of StoreWorkflow: the reset of loaded is missing.
StoreWorkflow_NoReset(pw, data) == [data |-> data, loaded |-> pw.loaded]

\* pending_workflow["data"] = data; pending_workflow["loaded"] = False
StoreWorkflow(pw, data) == [data |-> data, loaded |-> FALSE]

QueuedResponse ==
    [status |-> 200,
     body |-> [success |-> TRUE, message |-> "Workflow queued for loading"]]

\* Mutant of ErrorResponse: status=400 is missing.
ErrorResponse_NoStatus(e) ==
    [status |-> 200, body |-> [success |-> FALSE, error |-> e]]

ErrorResponse(e) ==
    [status |-> 400, body |-> [success |-> FALSE, error |-> e]]

\* The handler resumes from `await request.json()` with the body read.
\* From there to its return there is no await: the parse, the two writes
\* and the answer are one step of the event loop.
load_workflow(body) ==
    LET parsed == json_loads(body)
    IN  /\ inflight[SubmitRequest(body)] > 0
        /\ \/ /\ parsed.ok
              /\ Finish(SubmitRequest(body), QueuedResponse,
                        StoreWorkflow(pending_workflow, parsed.value), TRUE)
           \/ /\ ~parsed.ok
              /\ Finish(SubmitRequest(body), ErrorResponse(parsed.err),
                        pending_workflow, FALSE)

----------------------------------------------------------------------------
(* get_pending_workflow *)

\* Mutant of PollReady: the test of data is missing.
PollReady_IgnoresData(pw) == ~pw.loaded

\* Mutant of PollReady: the test of loaded is missing.
PollReady_IgnoresLoaded(pw) == Truthy(pw.data)

\* if pending_workflow["data"] and not pending_workflow["loaded"]
PollReady(pw) == Truthy(pw.data) /\ ~pw.loaded

\* Mutant of MarkLoaded: the write of loaded is missing.
MarkLoaded_NoWrite(pw) == pw

\* Mutant of MarkLoaded: the payload is dropped once handed out.
MarkLoaded_ClearsData(pw) == [data |-> None, loaded |-> TRUE]

\* pending_workflow["loaded"] = True
MarkLoaded(pw) == [pw EXCEPT !.loaded = TRUE]

WorkflowResponse(workflow) ==
    [status |-> 200,
     body |-> [hasWorkflow |-> TRUE, workflow |-> json_dumps(workflow)]]

EmptyResponse == [status |-> 200, body |-> [hasWorkflow |-> FALSE]]

\* The handler has no await: the test, the write and the answer are one
\* step of the event loop.
get_pending_workflow ==
    /\ inflight[PollRequest] > 0
    /\ \/ /\ PollReady(pending_workflow)
          /\ Finish(PollRequest, WorkflowResponse(pending_workflow.data),
                    MarkLoaded(pending_workflow), FALSE)
       \/ /\ ~PollReady(pending_workflow)
          /\ Finish(PollRequest, EmptyResponse, pending_workflow, FALSE)

----------------------------------------------------------------------------
(* status *)

\* Mutant of StatusResponse: installed follows the mailbox.
StatusResponse_FromMailbox ==
    [status |-> 200,
     body |-> [installed |-> Truthy(pending_workflow.data), version |-> "1.0.0",
               name |-> "ComfyUI ArtHub Extension"]]

StatusResponse ==
    [status |-> 200,
     body |-> [installed |-> TRUE, version |-> "1.0.0",
               name |-> "ComfyUI ArtHub Extension"]]

\* The handler reads and writes nothing of pending_workflow.
status ==
    /\ inflight[StatusRequest] > 0
    /\ Finish(StatusRequest, StatusResponse, pending_workflow, FALSE)

----------------------------------------------------------------------------
Next ==
    \/ \E r \in Requests : Arrive(r)
    \/ \E body \in Bodies : load_workflow(body)
    \/ get_pending_workflow
    \/ status

Spec == Init /\ [][Next]_vars

----------------------------------------------------------------------------
(* Vocabulary of the properties: what a completed handler run was.         *)

Empty == [data |-> None, loaded |-> FALSE]

IsSubmit(e) == e.op = "load_workflow"

IsPoll(e) == e.op = "get_pending_workflow"

IsStatus(e) == e.op = "status"

SubmitOK(e) == IsSubmit(e) /\ e.resp.body.success

SubmitFailed(e) == IsSubmit(e) /\ ~e.resp.body.success

\* The poll answered hasWorkflow=true.
Delivers(e) == IsPoll(e) /\ e.resp.body.hasWorkflow

\* The poll answered hasWorkflow=true with the JSON document `text`.
DeliversDoc(e, text) ==
    /\ Delivers(e)
    /\ json_loads(e.resp.body.workflow) = json_loads(text)

\* A payload is held and has not been handed out.
Pending(pw) == pw.data # None /\ ~pw.loaded

\* No successful submit ran strictly between positions i and j of the log.
NoSubmitBetween(i, j) == \A k \in (i + 1)..(j - 1) : ~SubmitOK(log[k])

\* Only status calls and failed submits ran strictly between i and j.
QuietBetween(i, j) ==
    \A k \in (i + 1)..(j - 1) : IsStatus(log[k]) \/ SubmitFailed(log[k])

----------------------------------------------------------------------------
\* C1: for every JSON document d that load_workflow accepts, the falsy ones
\* ({}, [], 0, false, "", null) included, a successful submit of d directly
\* followed by one poll makes that poll answer hasWorkflow=true with
\* workflow equal to d.
C1_SubmitThenPollReturnsDocument ==
    \A i \in 1..(Len(log) - 1) :
        SubmitOK(log[i]) /\ IsPoll(log[i + 1])
            => DeliversDoc(log[i + 1], log[i].body)

\* C2: when a payload is pending (present, loaded=False) and two or more
\* polls run with no submit among them, exactly one of them answers
\* hasWorkflow=true and all the others answer hasWorkflow=false.
C2_ConcurrentPollsExactlyOne ==
    \A i \in 1..Len(log) : \A j \in (i + 1)..Len(log) :
        /\ Pending(log[i].pre)
        /\ \A k \in i..j : IsPoll(log[k])
        => Cardinality({k \in i..j : Delivers(log[k])}) = 1

\* C3: after a successful submit of A directly followed by a successful
\* submit of B, the next poll answers hasWorkflow=true with B, and no later
\* poll answers A unless A was submitted again.
C3_SecondSubmitWins ==
    \A i \in 1..(Len(log) - 1) :
        SubmitOK(log[i]) /\ SubmitOK(log[i + 1]) =>
            /\ \A j \in (i + 2)..Len(log) :
                   IsPoll(log[j]) /\ QuietBetween(i + 1, j)
                       => DeliversDoc(log[j], log[i + 1].body)
            /\ \A j \in (i + 2)..Len(log) :
                   DeliversDoc(log[j], log[i].body) =>
                       \/ json_loads(log[i].body) = json_loads(log[i + 1].body)
                       \/ \E k \in (i + 2)..(j - 1) :
                              /\ SubmitOK(log[k])
                              /\ json_loads(log[k].body) = json_loads(log[i].body)

\* C4: a submit whose body cannot be parsed leaves data and loaded as they
\* were, so a document that was pending before it is still returned by the
\* next poll.
C4_FailedSubmitKeepsPending ==
    \A i \in 1..Len(log) :
        SubmitFailed(log[i]) =>
            /\ log[i].post = log[i].pre
            /\ \A j \in (i + 1)..Len(log) :
                   /\ Pending(log[i].pre)
                   /\ IsPoll(log[j])
                   /\ QuietBetween(i, j)
                   => /\ Delivers(log[j])
                      /\ json_loads(log[j].resp.body.workflow).value = log[i].pre.data

\* C5: after a poll has answered hasWorkflow=true, every further poll
\* answers hasWorkflow=false until the next successful submit, whatever the
\* number of polls, status calls and failed submits in between.
C5_DeliveredOncePerSubmit ==
    \A i \in 1..Len(log) : \A j \in (i + 1)..Len(log) :
        Delivers(log[i]) /\ IsPoll(log[j]) /\ NoSubmitBetween(i, j)
            => ~Delivers(log[j])

\* A delivery, then a status call or a failed submit, then a poll that
\* comes back empty.
C5_Witness ==
    \E i \in 1..Len(log) : \E j \in (i + 2)..Len(log) :
        /\ Delivers(log[i])
        /\ QuietBetween(i, j)
        /\ IsPoll(log[j])
        /\ ~Delivers(log[j])

----------------------------------------------------------------------------
\* C6: a successful submit of p leaves the mailbox as (data=p, loaded=False)
\* from every prior state, and the document is therefore handed out by the
\* next poll.
C6_SubmitRearmsDelivery ==
    \A i \in 1..Len(log) :
        SubmitOK(log[i]) =>
            /\ log[i].post = [data |-> json_loads(log[i].body).value, loaded |-> FALSE]
            /\ \A j \in (i + 1)..Len(log) :
                   IsPoll(log[j]) /\ QuietBetween(i, j)
                       => DeliversDoc(log[j], log[i].body)

\* What a poll answers when it finds the mailbox as pw.
PollAnswer(pw) ==
    IF PollReady(pw) THEN WorkflowResponse(pw.data) ELSE EmptyResponse

\* C7: status answers installed=true in every mailbox state and leaves data
\* and loaded as they were, so a poll that follows it answers what it would
\* have answered in its place.
C7_StatusIsPure ==
    \A i \in 1..Len(log) :
        IsStatus(log[i]) =>
            /\ log[i].resp.body.installed
            /\ log[i].post = log[i].pre
            /\ i < Len(log) /\ IsPoll(log[i + 1])
                   => log[i + 1].resp = PollAnswer(log[i].pre)

\* status has run with a payload pending and, later, with it delivered.
C7_Witness ==
    \E i \in 1..Len(log) : \E j \in (i + 1)..Len(log) :
        /\ IsStatus(log[i]) /\ PollReady(log[i].pre)
        /\ IsStatus(log[j]) /\ log[j].pre.loaded

\* C8: load_workflow answers success=true with 200 exactly when it stored
\* the payload and reset loaded, and success=false with an error field and
\* 400 exactly when it left the mailbox as it was.
C8_SubmitAnswerMatchesEffect ==
    \A i \in 1..Len(log) :
        IsSubmit(log[i]) =>
            LET e == log[i]
            IN  /\ e.resp.body.success <=> e.stored
                /\ e.resp.body.success <=> e.resp.status = 200
                /\ e.stored =>
                       /\ e.post = [data |-> json_loads(e.body).value, loaded |-> FALSE]
                       /\ "error" \notin DOMAIN e.resp.body
                /\ ~e.stored =>
                       /\ e.post = e.pre
                       /\ e.resp.status = 400
                       /\ "error" \in DOMAIN e.resp.body

\* A submit that stored and, after it, a submit that failed on the mailbox
\* the first one filled.
C8_Witness ==
    \E i \in 1..Len(log) : \E j \in (i + 1)..Len(log) :
        /\ SubmitOK(log[i])
        /\ SubmitFailed(log[j])
        /\ log[j].pre # Empty

NoSubmitYet == \A i \in 1..Len(log) : ~SubmitOK(log[i])

\* C9: before the first successful submit every poll answers
\* hasWorkflow=false and the mailbox stays (data=None, loaded=False),
\* whatever polls, status calls and failed submits have run.
C9_EmptyUntilFirstSubmit ==
    NoSubmitYet =>
        /\ pending_workflow = Empty
        /\ \A i \in 1..Len(log) :
               /\ log[i].post = Empty
               /\ IsPoll(log[i]) => ~Delivers(log[i])

\* Two polls, a status call and a failed submit, and no successful submit.
C9_Witness ==
    /\ NoSubmitYet
    /\ Cardinality({i \in 1..Len(log) : IsPoll(log[i])}) >= 2
    /\ \E i \in 1..Len(log) : IsStatus(log[i])
    /\ \E i \in 1..Len(log) : SubmitFailed(log[i])

\* The log accounts for every change of the mailbox.
LogIsHistory ==
    /\ Len(log) > 0 => log[1].pre = Empty /\ log[Len(log)].post = pending_workflow
    /\ Len(log) = 0 => pending_workflow = Empty
    /\ \A i \in 1..(Len(log) - 1) : log[i].post = log[i + 1].pre

\* C10: a poll never changes data; one that answers hasWorkflow=false
\* changes nothing, one that answers hasWorkflow=true only takes loaded from
\* False to True.  loaded goes False to True only in a poll and True to
\* False only in a successful submit.
C10_PollOnlyMarksLoaded ==
    /\ LogIsHistory
    /\ \A i \in 1..Len(log) :
           LET e == log[i]
           IN  /\ IsPoll(e) => e.post.data = e.pre.data
               /\ IsPoll(e) /\ ~Delivers(e) => e.post = e.pre
               /\ Delivers(e) => ~e.pre.loaded /\ e.post.loaded
               /\ ~e.pre.loaded /\ e.post.loaded => IsPoll(e)
               /\ e.pre.loaded /\ ~e.post.loaded => SubmitOK(e)

\* A delivery that left the payload in the slot, an empty poll after it,
\* and a successful submit that took loaded back to False.
C10_Witness ==
    \E i \in 1..Len(log) : \E j \in (i + 1)..Len(log) : \E k \in (j + 1)..Len(log) :
        /\ Delivers(log[i]) /\ log[i].post.data # None
        /\ IsPoll(log[j]) /\ ~Delivers(log[j])
        /\ SubmitOK(log[k]) /\ log[k].pre.loaded

----------------------------------------------------------------------------
\* How many of the first j handler runs were successful submits, and how
\* many were polls that answered hasWorkflow=true.
Submits(j) == Cardinality({i \in 1..j : SubmitOK(log[i])})

Deliveries(j) == Cardinality({i \in 1..j : Delivers(log[i])})

\* C11: at-most-once delivery: at every point of every interleaving of
\* concurrent submit, poll and status requests, the polls that have
\* answered hasWorkflow=true are no more than the successful submits.
C11_AtMostOnceDelivery ==
    \A j \in 1..Len(log) : Deliveries(j) <= Submits(j)

\* One submit and two polls, all three in flight at the same time: one
\* poll delivered and the other came back empty.
C11_Witness ==
    /\ received = 3
    /\ overlapped
    /\ Len(log) = 3
    /\ Submits(3) = 1
    /\ Deliveries(3) = 1
    /\ \E i \in 1..3 : IsPoll(log[i]) /\ ~Delivers(log[i]) /\ log[i].pre.loaded

\* C12: no stale delivery: a poll that answers hasWorkflow=true answers
\* the payload of the latest successful submit that ran before it, never
\* one that a later submit has overwritten.
C12_NoStaleDelivery ==
    \A j \in 1..Len(log) :
        Delivers(log[j]) =>
            \E i \in 1..(j - 1) :
                /\ SubmitOK(log[i])
                /\ NoSubmitBetween(i, j)
                /\ DeliversDoc(log[j], log[i].body)

\* Two different documents stored one after the other while both submits
\* and the poll were in flight, and the poll delivered the second.
C12_Witness ==
    /\ received = 3
    /\ overlapped
    /\ Len(log) = 3
    /\ SubmitOK(log[1])
    /\ SubmitOK(log[2])
    /\ json_loads(log[1].body) # json_loads(log[2].body)
    /\ DeliversDoc(log[3], log[2].body)

\* The mailbox the handler run at position j found, as the successful
\* submits and the delivering polls before it leave it.
Expected(j) ==
    IF \A i \in 1..(j - 1) : ~SubmitOK(log[i]) THEN Empty
    ELSE LET last == CHOOSE i \in 1..(j - 1) :
                         SubmitOK(log[i]) /\ NoSubmitBetween(i, j)
         IN  [data |-> json_loads(log[last].body).value,
              loaded |-> \E k \in (last + 1)..(j - 1) : Delivers(log[k])]

\* C13: load_workflow writes data and resets loaded with no suspension
\* between the two, so a poll finds either the payload of the latest
\* successful submit with loaded=False, or that payload with loaded=True
\* after a delivery of it, never a new payload with the old loaded=True nor
\* an old payload with a fresh loaded=False; after concurrent submits the
\* slot holds the payload of the one that resumed last, with loaded=False.
C13_SubmitWritesAreOneStep ==
    /\ \A j \in 1..Len(log) : IsPoll(log[j]) => log[j].pre = Expected(j)
    /\ Len(log) > 0 /\ SubmitOK(log[Len(log)]) =>
           pending_workflow =
               [data |-> json_loads(log[Len(log)].body).value, loaded |-> FALSE]

\* A submit, a poll and two submits of different documents, all four in
\* flight at the same time: the third stored over the delivered payload
\* and the slot holds the fourth.
C13_Witness ==
    /\ Len(log) = 4
    /\ Delivers(log[2])
    /\ SubmitOK(log[3])
    /\ SubmitOK(log[4])
    /\ json_loads(log[3].body) # json_loads(log[4].body)
    /\ received = 4
    /\ overlapped
    /\ pending_workflow = [data |-> json_loads(log[4].body).value, loaded |-> FALSE]

----------------------------------------------------------------------------
(* What holds of C1..C4 and C6 once the payload is one Python treats as    *)
(* true:                                                                   *)
(* the test at the top of get_pending_workflow is the only thing between   *)
(* these and the statements above.                                         *)

TruthyBody(text) == json_loads(text).ok /\ Truthy(json_loads(text).value)

SubmitThenPoll_Truthy ==
    \A i \in 1..(Len(log) - 1) :
        SubmitOK(log[i]) /\ IsPoll(log[i + 1]) /\ TruthyBody(log[i].body)
            => DeliversDoc(log[i + 1], log[i].body)

ConcurrentPolls_Truthy ==
    \A i \in 1..Len(log) : \A j \in (i + 1)..Len(log) :
        /\ PollReady(log[i].pre)
        /\ \A k \in i..j : IsPoll(log[k])
        => /\ Delivers(log[i])
           /\ \A k \in (i + 1)..j : ~Delivers(log[k])

SecondSubmitWins_Truthy ==
    \A i \in 1..(Len(log) - 1) :
        SubmitOK(log[i]) /\ SubmitOK(log[i + 1]) /\ TruthyBody(log[i + 1].body) =>
            /\ \A j \in (i + 2)..Len(log) :
                   IsPoll(log[j]) /\ QuietBetween(i + 1, j)
                       => DeliversDoc(log[j], log[i + 1].body)
            /\ \A j \in (i + 2)..Len(log) :
                   DeliversDoc(log[j], log[i].body) =>
                       \/ json_loads(log[i].body) = json_loads(log[i + 1].body)
                       \/ \E k \in (i + 2)..(j - 1) :
                              /\ SubmitOK(log[k])
                              /\ json_loads(log[k].body) = json_loads(log[i].body)

FailedSubmitKeepsPending_Truthy ==
    \A i \in 1..Len(log) :
        SubmitFailed(log[i]) =>
            /\ log[i].post = log[i].pre
            /\ \A j \in (i + 1)..Len(log) :
                   /\ PollReady(log[i].pre)
                   /\ IsPoll(log[j])
                   /\ QuietBetween(i, j)
                   => /\ Delivers(log[j])
                      /\ json_loads(log[j].resp.body.workflow).value = log[i].pre.data

SubmitRearmsDelivery_Truthy ==
    \A i \in 1..Len(log) :
        SubmitOK(log[i]) =>
            /\ log[i].post = [data |-> json_loads(log[i].body).value, loaded |-> FALSE]
            /\ \A j \in (i + 1)..Len(log) :
                   IsPoll(log[j]) /\ QuietBetween(i, j) /\ TruthyBody(log[i].body)
                       => DeliversDoc(log[j], log[i].body)

====
